---- MODULE Spec2Model ----
(***************************************************************************)
(* Model of rcore's Core (src/rcore/src/core.rs): the command registry,    *)
(* the dispatcher (run, run_at, help), the not-found diagnostic and the    *)
(* cursor override of run_at.  Execution is single-threaded; a dispatch    *)
(* that reaches a registered operation hands control to that operation,    *)
(* which may act on the Core (it receives &mut Core) and dispatch again,   *)
(* so the call stack is part of the state.                                 *)
(***************************************************************************)
EXTENDS Integers, Sequences, FiniteSets, TLC

(***************************************************************************)
(* Bounds of the model.                                                    *)
(***************************************************************************)
\* add_command calls by the driver that insert a new entry
MaxAdded == 1
\* chunks an operation may write to the primary sink
MaxOut == 1
\* dispatches made by operations within one driver call
MaxNested == 1

(***************************************************************************)
(* Program constants.                                                      *)
(***************************************************************************)
\* find(&command, 0) in add_command
AddTolerance == 0
\* find(&command.to_string(), 2) in run
RunTolerance == 2
\* find(&command.to_string(), 2) in help
HelpTolerance == 2
\* find(&command.to_string(), 2) in command_not_found
SuggestTolerance == 2
\* self.color_palette[5]
SuggestionSlot == 5
\* 0x500, the address used by test_loc and test_run_at
AddrStep == 1280

(***************************************************************************)
(* Command names are sequences of characters.                              *)
(***************************************************************************)
n_map == <<"m", "a", "p">>
n_maps == <<"m", "a", "p", "s">>
n_mode == <<"m", "o", "d", "e">>
n_m == <<"m">>
n_printHex == <<"p", "r", "i", "n", "t", "H", "e", "x">>
n_px == <<"p", "x">>
n_seek == <<"s", "e", "e", "k">>
n_s == <<"s">>
n_unmap == <<"u", "n", "m", "a", "p">>
n_um == <<"u", "m">>
n_seeker == <<"s", "e", "e", "k", "e", "r">>
n_ma == <<"m", "a">>
n_quit == <<"q", "u", "i", "t">>

\* the (name, operation) pairs of load_commands, in call order
LoadedCommands ==
    << <<n_map, "MAPFUNCTION">>, <<n_maps, "LISTMAPFUNCTION">>,
       <<n_mode, "MODEFUNCTION">>, <<n_m, "MODEFUNCTION">>,
       <<n_printHex, "PRINTHEXFUNCTION">>, <<n_px, "PRINTHEXFUNCTION">>,
       <<n_seek, "SEEKFUNCTION">>, <<n_s, "SEEKFUNCTION">>,
       <<n_unmap, "UNMAPFUNCTION">>, <<n_um, "UNMAPFUNCTION">> >>

\* the colours pushed by init_colors, in push order
InitColors ==
    << <<88, 104, 117>>, <<181, 137, 0>>, <<203, 75, 22>>, <<220, 50, 47>>,
       <<211, 54, 130>>, <<108, 113, 196>>, <<38, 139, 210>>, <<42, 161, 152>>,
       <<133, 153, 0>> >>

(***************************************************************************)
(* Inputs the driver and the operations draw from.                         *)
(***************************************************************************)
Addrs == {0, AddrStep}
AddNames == {n_seek, n_seeker}
AddOps == {"SEEKFUNCTION", "MODEFUNCTION"}
CmdNames == {n_seek, n_seeker, n_ma, n_quit}
ArgLists == {<<>>, <<"0x10">>}
\* what a running operation dispatches
OpCmdNames == {n_seek, n_seeker}
OpArgLists == {<<>>}
Palettes == {SubSeq(InitColors, 1, k) :
                k \in {SuggestionSlot, SuggestionSlot + 1}}
AllNames == {LoadedCommands[i][1] : i \in 1 .. Len(LoadedCommands)}
                \cup AddNames \cup CmdNames

(***************************************************************************)
(* rtrees::bktree::SpellTree: the name index.                              *)
(***************************************************************************)
Min2(a, b) == IF a < b THEN a ELSE b

\* edit distance (insertions, deletions, substitutions) between two names:
\* lev[i, j] is the distance between the first i characters of s and the
\* first j characters of t
distance(s, t) ==
    LET lev[i \in 0 .. Len(s), j \in 0 .. Len(t)] ==
            IF i = 0 THEN j
            ELSE IF j = 0 THEN i
            ELSE Min2(Min2(lev[i - 1, j] + 1, lev[i, j - 1] + 1),
                      lev[i - 1, j - 1] + (IF s[i] = t[j] THEN 0 ELSE 1))
    IN  lev[Len(s), Len(t)]

\* the distances between the names the model uses, computed once
DistTable == [p \in AllNames \X AllNames |-> distance(p[1], p[2])] @@ <<>>

Dist(s, t) == DistTable[<<s, t>>]

\* SpellTree::new()
SpellTree_new == <<>>

\* SpellTree::insert(key, value): entries are kept in insertion order
SpellTree_insert(tree, key, value) ==
    Append(tree, [key |-> key, value |-> value])

\* the keys of tree at distance exactly d from key, in insertion order
Ring(tree, key, d) ==
    LET at_d == SelectSeq(tree, LAMBDA e : Dist(e.key, key) = d)
    IN  [i \in 1 .. Len(at_d) |-> at_d[i].key]

RECURSIVE Rings(_, _, _, _)
\* the keys at distance d .. tolerance, by increasing distance
Rings(tree, key, d, tolerance) ==
    IF d > tolerance THEN <<>>
    ELSE Ring(tree, key, d) \o Rings(tree, key, d + 1, tolerance)

\* the values of the entries whose key is key, in insertion order
ExactValues(tree, key) ==
    LET at_0 == SelectSeq(tree, LAMBDA e : e.key = key)
    IN  [i \in 1 .. Len(at_0) |-> at_0[i].value]

\* SpellTree::find(key, tolerance) -> (exact values, similar keys)
find(tree, key, tolerance) ==
    [exact |-> ExactValues(tree, key),
     similar |-> Rings(tree, key, 1, tolerance)]

(***************************************************************************)
(* yansi::Paint and the Writer sinks: a sink holds the styled chunks       *)
(* written to it, in order.                                                *)
(***************************************************************************)
RECURSIVE Str(_)
\* the characters of a name as one string
Str(n) == IF n = <<>> THEN "" ELSE Head(n) \o Str(Tail(n))

Unset == <<"Unset">>
Paint_new(text, fg, bold) == [text |-> text, fg |-> fg, bold |-> bold]
\* an unstyled literal of a format string
Plain(text) == Paint_new(text, Unset, FALSE)
\* Paint::default(x).bold()
Paint_default_bold(text) == Paint_new(text, Unset, TRUE)
\* Paint::rgb(r, g, b, x)
Paint_rgb(rgb, text) == Paint_new(text, <<"RGB", rgb[1], rgb[2], rgb[3]>>, FALSE)

\* Writer::new_buf()
Writer_new_buf == <<>>

RECURSIVE utf8_string(_)
\* Writer::utf8_string() with Paint::disable(): the text without styling
utf8_string(w) == IF w = <<>> THEN "" ELSE Head(w).text \o utf8_string(Tail(w))

\* helper::error_msg(core, title, msg): "Error: <title>\n<msg>\n" on stderr
error_msg(self, title, msg) ==
    [self EXCEPT !.stderr =
        @ \o << Paint_new("Error", <<"Red">>, TRUE), Plain(": "),
                Paint_new(title, <<"Yellow">>, FALSE), Plain("\n") >>
          \o msg \o <<Plain("\n")>>]

(***************************************************************************)
(* struct Core and its methods, as functions of the Core value `self`.     *)
(***************************************************************************)
\* impl Default for Core
Core_default ==
    [mode |-> "Phy", stdout |-> Writer_new_buf, stderr |-> Writer_new_buf,
     loc |-> 0, commands |-> SpellTree_new, color_palette |-> <<>>]

\* Core::set_loc
set_loc(self, v) == [self EXCEPT !.loc = v]

\* Core::get_loc
get_loc(self) == self.loc

\* a collision check that also counts the names within edit distance 2
add_command_exact_near(self, command_name) ==
    LET r == find(self.commands, command_name, RunTolerance)
    IN  r.exact \o r.similar

\* the collision check of add_command: let (exact, _) = find(&command, 0)
add_command_exact(self, command_name) ==
    find(self.commands, command_name, AddTolerance).exact

\* add_command with a collision that is dropped without a report
add_command_silent(self, command_name, functionality) ==
    IF add_command_exact(self, command_name) = <<>>
    THEN [self EXCEPT
            !.commands = SpellTree_insert(@, command_name, functionality)]
    ELSE self

\* add_command with a collision that reports and drops the colliding entry
add_command_evict(self, command_name, functionality) ==
    IF add_command_exact(self, command_name) = <<>>
    THEN [self EXCEPT
            !.commands = SpellTree_insert(@, command_name, functionality)]
    ELSE error_msg([self EXCEPT !.commands =
                        SelectSeq(@, LAMBDA e : e.key # command_name)],
                   "Cannot add this command.",
                   << Plain("Command "), Paint_default_bold(Str(command_name)),
                      Plain(" already existed.") >>)

\* add_command with a collision that overwrites the binding
add_command_overwrite(self, command_name, functionality) ==
    IF add_command_exact(self, command_name) = <<>>
    THEN [self EXCEPT
            !.commands = SpellTree_insert(@, command_name, functionality)]
    ELSE [self EXCEPT !.commands =
            [i \in 1 .. Len(@) |->
                IF @[i].key = command_name
                THEN [key |-> command_name, value |-> functionality]
                ELSE @[i]]]

\* Core::add_command
add_command(self, command_name, functionality) ==
    IF add_command_exact(self, command_name) = <<>>
    THEN [self EXCEPT
            !.commands = SpellTree_insert(@, command_name, functionality)]
    ELSE error_msg(self, "Cannot add this command.",
                   << Plain("Command "), Paint_default_bold(Str(command_name)),
                      Plain(" already existed.") >>)

RECURSIVE load_commands_from(_, _)
load_commands_from(self, i) ==
    IF i > Len(LoadedCommands) THEN self
    ELSE load_commands_from(
             add_command(self, LoadedCommands[i][1], LoadedCommands[i][2]), i + 1)

\* Core::load_commands
load_commands(self) == load_commands_from(self, 1)

\* Core::init_colors
init_colors(self) == [self EXCEPT !.color_palette = @ \o InitColors]

\* Core::new
Core_new == init_colors(load_commands(Core_default))

\* a loop over the remaining suggestions that goes from the last to the first
MoreSuggestions_reversed(rgb, s) ==
    [i \in 1 .. 2 * Len(s) |->
        IF i % 2 = 1 THEN Plain(", ")
        ELSE Paint_rgb(rgb, Str(s[Len(s) + 1 - (i \div 2)]))]

RECURSIVE MoreSuggestions(_, _)
\* for suggestion in s { write!(self.stderr, ", {}", Paint::rgb(..)) }
MoreSuggestions(rgb, s) ==
    IF s = <<>> THEN <<>>
    ELSE << Plain(", "), Paint_rgb(rgb, Str(Head(s))) >>
             \o MoreSuggestions(rgb, Tail(s))

\* a search for suggestions one edit wider
command_not_found_similar_wide(self, command) ==
    find(self.commands, command, SuggestTolerance + 1).similar

\* the set searched for suggestions: let (_, similar) = find(&command, 2)
command_not_found_similar(self, command) ==
    find(self.commands, command, SuggestTolerance).similar

\* Core::command_not_found.  The result is the Core after the writes that
\* happened and whether the call panicked: color_palette[5] is an indexing
\* of a Vec, which panics when the Vec has fewer than 6 elements.
command_not_found(self, command) ==
    LET reported == error_msg(self, "Execution failed",
                        << Plain("Command "), Paint_default_bold(Str(command)),
                           Plain(" is not found.") >>)
        similar == command_not_found_similar(self, command)
    IN  IF similar = <<>> THEN [core |-> reported, panic |-> FALSE]
        ELSE IF Len(self.color_palette) < SuggestionSlot + 1
        THEN [core |-> reported, panic |-> TRUE]
        ELSE LET rgb == self.color_palette[SuggestionSlot + 1]
             IN  [core |-> [reported EXCEPT !.stderr =
                        @ \o << Plain("Similar command: "),
                                Paint_rgb(rgb, Str(Head(similar))) >>
                          \o MoreSuggestions(rgb, Tail(similar))
                          \o << Plain(".\n") >>],
                  panic |-> FALSE]

\* the lookup of run: let (exact, _) = find(&command.to_string(), 2)
run_exact(self, command) == find(self.commands, command, RunTolerance).exact

\* a lookup for help that takes the nearest names for matches
help_exact_fuzzy(self, command) ==
    LET r == find(self.commands, command, HelpTolerance)
    IN  r.exact \o [i \in 1 .. Len(r.similar) |-> "SEEKFUNCTION"]

\* the lookup of help: let (exact, _) = find(&command.to_string(), 2)
help_exact(self, command) == find(self.commands, command, HelpTolerance).exact

\* an invocation that drops the arguments
run_invoke_no_args(exact, args) == [op |-> exact[1], entry |-> "run", args |-> <<>>]

\* (exact[0].run)(self, args): the function invoked and what it is given
run_invoke(exact, args) == [op |-> exact[1], entry |-> "run", args |-> args]

\* (exact[0].help)(self)
help_invoke(exact) == [op |-> exact[1], entry |-> "help", args |-> <<>>]

\* Core::run up to the point where it returns, panics or hands control to
\* the operation: the Core then, whether it panicked, the invocation if any
run_dispatch(self, command, args) ==
    LET exact == run_exact(self, command)
    IN  IF exact = <<>>
        THEN LET r == command_not_found(self, command)
             IN  [core |-> r.core, panic |-> r.panic, invoke |-> <<>>]
        ELSE [core |-> self, panic |-> FALSE,
              invoke |-> <<run_invoke(exact, args)>>]

\* Core::help, likewise
help_dispatch(self, command) ==
    LET exact == help_exact(self, command)
    IN  IF exact = <<>>
        THEN LET r == command_not_found(self, command)
             IN  [core |-> r.core, panic |-> r.panic, invoke |-> <<>>]
        ELSE [core |-> self, panic |-> FALSE, invoke |-> <<help_invoke(exact)>>]

\* run_at that does not install `at`
run_at_replace_keep(self, at) == [core |-> self, old_loc |-> self.loc]

\* run_at, before the call of run: let old_loc = mem::replace(&mut self.loc, at)
run_at_replace(self, at) == [core |-> [self EXCEPT !.loc = at], old_loc |-> self.loc]

\* run_at that resets the cursor to the default instead of the captured value
run_at_restore_default(self, old_loc) == [self EXCEPT !.loc = Core_default.loc]

\* run_at that leaves the cursor as the call of run left it
run_at_restore_none(self, old_loc) == self

\* run_at, after the call of run returned: self.loc = old_loc
run_at_restore(self, old_loc) == [self EXCEPT !.loc = old_loc]

(***************************************************************************)
(* The state: the fields of the Core, the call stack, and the record of    *)
(* the call the driver made last.                                          *)
(***************************************************************************)
VARIABLES
    mode,           \* Core.mode
    stdout,         \* Core.stdout, the primary sink
    stderr,         \* Core.stderr, the diagnostic sink
    loc,            \* Core.loc, the cursor
    commands,       \* Core.commands, the registry
    color_palette,  \* Core.color_palette
    stack,          \* frames of run_at and of invoked operations, innermost last
    panicked,       \* a panic unwound the stack
    cur             \* the driver's latest call: what it was, the Core before
                    \* it (pre), the functions it invoked, the dispatches the
                    \* operation made (nested), the cursor the operation left

vars == <<mode, stdout, stderr, loc, commands, color_palette, stack, panicked, cur>>

Self ==
    [mode |-> mode, stdout |-> stdout, stderr |-> stderr, loc |-> loc,
     commands |-> commands, color_palette |-> color_palette]

Commit(c) ==
    /\ mode' = c.mode
    /\ stdout' = c.stdout
    /\ stderr' = c.stderr
    /\ loc' = c.loc
    /\ commands' = c.commands
    /\ color_palette' = c.color_palette

\* the record of a call by the driver
Call(fn, command, args, at, op, status, pre) ==
    [fn |-> fn, command |-> command, args |-> args, at |-> at, op |-> op,
     status |-> status, pre |-> pre, invoked |-> <<>>, nested |-> 0,
     left |-> 0]

\* the record kept when the driver's latest action was not a call under study
NoCall == Call("none", <<>>, <<>>, 0, "none", "returned", Core_default)

RunAtFrame(old_loc, at, pre_loc) ==
    [fn |-> "run_at", old_loc |-> old_loc, at |-> at, pre_loc |-> pre_loc]

OpFrame(op, entry, args) ==
    [fn |-> "op", op |-> op, entry |-> entry, args |-> args]

Top == stack[Len(stack)]
Pop == SubSeq(stack, 1, Len(stack) - 1)

\* the driver holds the Core: no call is running or waits to be inspected
Idle == ~panicked /\ stack = <<>> /\ cur.fn = "none"
\* an operation is running and holds the Core
InOp == ~panicked /\ stack # <<>> /\ Top.fn = "op"

\* entries the driver added after construction
Added ==
    IF Len(commands) >= Len(LoadedCommands)
    THEN Len(commands) - Len(LoadedCommands) ELSE Len(commands)

\* who may call run, run_at or help: the driver, or the running operation
CanDispatch ==
    \/ Idle
    \/ InOp /\ cur.nested < MaxNested

CurOnDispatch(fn, command, args, at) ==
    IF stack = <<>> THEN Call(fn, command, args, at, "none", "running", Self)
    ELSE [cur EXCEPT !.nested = @ + 1]

Init ==
    /\ \E c \in {Core_new, Core_default} : 
          /\ mode = c.mode
          /\ stdout = c.stdout
          /\ stderr = c.stderr
          /\ loc = c.loc
          /\ commands = c.commands
          /\ color_palette = c.color_palette
    /\ stack = <<>>
    /\ panicked = FALSE
    /\ cur = NoCall

(***************************************************************************)
(* The driver's actions on the Core it owns.                               *)
(***************************************************************************)
\* core.add_command(name, f)
DriverAddCommand(name, f) ==
    /\ Idle
    /\ add_command_exact(Self, name) = <<>> => Added < MaxAdded
    /\ Commit(add_command(Self, name, f))
    /\ cur' = Call("add_command", name, <<>>, 0, f, "returned", Self)
    /\ UNCHANGED <<stack, panicked>>

\* core.set_loc(v)
DriverSetLoc(v) ==
    /\ Idle
    /\ v # loc
    /\ Commit(set_loc(Self, v))
    /\ cur' = NoCall
    /\ UNCHANGED <<stack, panicked>>

\* core.mode = m (the field is public)
DriverSetMode(m) ==
    /\ Idle
    /\ m # mode
    /\ Commit([Self EXCEPT !.mode = m])
    /\ cur' = NoCall
    /\ UNCHANGED <<stack, panicked>>

\* core.color_palette = p (the field is public)
DriverSetPalette(p) ==
    /\ Idle
    /\ p # color_palette
    /\ Commit([Self EXCEPT !.color_palette = p])
    /\ cur' = NoCall
    /\ UNCHANGED <<stack, panicked>>

\* The driver reads what the call left in the sinks and installs fresh
\* buffers for its next call, as the tests do around every call:
\* core.stderr = Writer::new_buf(); core.stdout = Writer::new_buf()
DriverInspect ==
    /\ ~panicked
    /\ stack = <<>>
    /\ cur.fn # "none"
    /\ Commit([Self EXCEPT !.stderr = Writer_new_buf, !.stdout = Writer_new_buf])
    /\ cur' = NoCall
    /\ UNCHANGED <<stack, panicked>>

(***************************************************************************)
(* Dispatch: run, run_at and help, called by the driver or by the running  *)
(* operation.  Each action runs the callee up to the point where it        *)
(* returns, panics or hands control to a registered operation.             *)
(***************************************************************************)
\* the outcome d of a dispatch takes effect; stack1 and cur1 are the stack
\* and the call record at the dispatch
Dispatched(d, stack1, cur1) ==
    /\ Commit(d.core)
    /\ IF d.panic
       THEN \* the panic unwinds every frame: nothing of run_at runs again
            /\ panicked' = TRUE
            /\ stack' = <<>>
            /\ cur' = [cur1 EXCEPT !.status = "panicked"]
       ELSE IF d.invoke = <<>>
       THEN \* run or help returned to its caller
            /\ panicked' = panicked
            /\ stack' = stack1
            /\ cur' = IF stack1 = <<>>
                      THEN [cur1 EXCEPT !.status = "returned"] ELSE cur1
       ELSE \* the operation starts; it sees the Core as d.core
            /\ panicked' = panicked
            /\ stack' = Append(stack1,
                               OpFrame(d.invoke[1].op, d.invoke[1].entry,
                                       d.invoke[1].args))
            /\ cur' = IF stack = <<>>
                      THEN [cur1 EXCEPT !.invoked =
                               Append(@, [op |-> d.invoke[1].op,
                                          entry |-> d.invoke[1].entry,
                                          args |-> d.invoke[1].args,
                                          loc |-> get_loc(d.core)])]
                      ELSE cur1

\* Core::run
run(command, args) ==
    /\ CanDispatch
    /\ Dispatched(run_dispatch(Self, command, args), stack,
                  CurOnDispatch("run", command, args, 0))

\* Core::run_at up to the return of its call of run
run_at(command, args, at) ==
    /\ CanDispatch
    /\ LET r == run_at_replace(Self, at)
       IN  Dispatched(run_dispatch(r.core, command, args),
                      Append(stack, RunAtFrame(r.old_loc, at, loc)),
                      CurOnDispatch("run_at", command, args, at))

\* Core::run_at after its call of run returned
run_at_exit ==
    /\ ~panicked
    /\ stack # <<>>
    /\ Top.fn = "run_at"
    /\ Commit(run_at_restore(Self, Top.old_loc))
    /\ stack' = Pop
    /\ cur' = IF Pop = <<>>
              THEN [cur EXCEPT !.status = "returned", !.left = loc] ELSE cur
    /\ UNCHANGED panicked

\* Core::help
help(command) ==
    /\ CanDispatch
    /\ Dispatched(help_dispatch(Self, command), stack,
                  CurOnDispatch("help", command, <<>>, 0))

(***************************************************************************)
(* A running operation: it holds &mut Core and may move the cursor, print,  *)
(* dispatch again (above), return or panic.                                *)
(***************************************************************************)
OpSetLoc(v) ==
    /\ InOp
    /\ v # loc
    /\ Commit(set_loc(Self, v))
    /\ UNCHANGED <<stack, panicked, cur>>

OpWrite ==
    /\ InOp
    /\ Len(stdout) < MaxOut
    /\ Commit([Self EXCEPT !.stdout = Append(@, Plain("output\n"))])
    /\ UNCHANGED <<stack, panicked, cur>>

OpReturn ==
    /\ InOp
    /\ stack' = Pop
    /\ cur' = IF Pop = <<>> THEN [cur EXCEPT !.status = "returned"] ELSE cur
    /\ UNCHANGED <<mode, stdout, stderr, loc, commands, color_palette, panicked>>

\* no frame catches a panic: it unwinds every frame, run_at's included
OpPanic ==
    /\ InOp
    /\ panicked' = TRUE
    /\ stack' = <<>>
    /\ cur' = [cur EXCEPT !.status = "panicked"]
    /\ UNCHANGED <<mode, stdout, stderr, loc, commands, color_palette>>

\* the names and argument lists the caller at hand draws from
CallNames == IF stack = <<>> THEN CmdNames ELSE OpCmdNames
CallArgs == IF stack = <<>> THEN ArgLists ELSE OpArgLists
\* a running operation dispatches through run_at
DriverNames == IF stack = <<>> THEN CmdNames ELSE {}

Next ==
    \/ \E name \in AddNames, f \in AddOps : DriverAddCommand(name, f)
    \/ \E v \in Addrs : DriverSetLoc(v)
    \/ \E m \in {"Phy", "Vir"} : DriverSetMode(m)
    \/ \E p \in Palettes : DriverSetPalette(p)
    \/ DriverInspect
    \/ \E command \in DriverNames, args \in CallArgs : run(command, args)
    \/ \E command \in CallNames, args \in CallArgs, at \in Addrs :
          run_at(command, args, at)
    \/ \E command \in DriverNames : help(command)
    \/ run_at_exit
    \/ \E v \in Addrs : OpSetLoc(v)
    \/ OpWrite
    \/ OpReturn
    \/ OpPanic

Spec == Init /\ [][Next]_vars

(***************************************************************************)
(* Properties.  They speak of the call the driver made last (cur): the     *)
(* Core before it is cur.pre, and the call has ended once cur.status is    *)
(* "returned" or "panicked".                                               *)
(***************************************************************************)
Registered(tree, name) == \E i \in 1 .. Len(tree) : tree[i].key = name

\* the operations bound to name in tree
Bound(tree, name) == {tree[i].value : i \in {j \in 1 .. Len(tree) : tree[j].key = name}}

\* the registered names at edit distance 1 or 2 from name
SimilarSet(tree, name) ==
    {tree[i].key : i \in {j \in 1 .. Len(tree) :
                            Dist(tree[j].key, name) \in {1, 2}}}

\* C1: after run_at(command, args, at) returns, for every command (registered
\* or not), every argument list and every at, get_loc() is the value it had
\* immediately before the call.
C1_RunAtLeavesCursor ==
    (cur.fn = "run_at" /\ cur.status = "returned")
        => get_loc(Self) = get_loc(cur.pre)

\* run_at("seeker", [], 0x500) on a fresh Core::new() returned after the
\* not-found report, and the cursor is the initial 0
C1_Witness ==
    /\ cur.fn = "run_at"
    /\ cur.status = "returned"
    /\ cur.command = n_seeker
    /\ cur.args = <<>>
    /\ cur.at = AddrStep
    /\ cur.pre = Core_new
    /\ cur.invoked = <<>>
    /\ stderr # <<>>
    /\ loc = 0

\* C2: registered names are unique and each is bound to the operation of the
\* first add_command that used it: an add_command of a registered name
\* inserts and replaces nothing, an add_command of a new name appends exactly
\* that binding, no dispatch changes the registry, and run(A, args) invokes
\* the operation the registry binds to A.
C2_FirstBindingWins ==
    /\ \A i, j \in 1 .. Len(commands) :
          commands[i].key = commands[j].key => i = j
    /\ cur.fn = "add_command" =>
          IF Registered(cur.pre.commands, cur.command)
          THEN commands = cur.pre.commands
          ELSE commands = Append(cur.pre.commands,
                                 [key |-> cur.command, value |-> cur.op])
    /\ cur.fn \in {"run", "run_at", "help"} =>
          /\ commands = cur.pre.commands
          /\ \A i \in 1 .. Len(cur.invoked) :
                Bound(commands, cur.command) = {cur.invoked[i].op}

\* seek was registered, then seeker, and add_command("seek", MODEFUNCTION) was
\* rejected: seek is still bound to its first operation
C2_Witness ==
    /\ cur.fn = "add_command"
    /\ cur.command = n_seek
    /\ cur.op = "MODEFUNCTION"
    /\ \E i, j \in 1 .. Len(commands) :
          /\ i < j
          /\ commands[i] = [key |-> n_seek, value |-> "SEEKFUNCTION"]
          /\ commands[j].key = n_seeker
    /\ commands = cur.pre.commands
    /\ stderr # <<>>

\* C3: the restore of run_at happens on every exit path: once control has
\* left run_at, by return or by panic, the cursor is the value from before
\* the call and never the overriding `at`.
C3_RestoreOnEveryExit ==
    (cur.fn = "run_at" /\ cur.status \in {"returned", "panicked"})
        => get_loc(Self) = get_loc(cur.pre)

\* C4: the operation invoked under run_at(command, args, at) observes
\* get_loc() = at on entry, and whatever it writes with set_loc, after run_at
\* returns the cursor is the value captured before the call.
C4_OverrideSeenThenUndone ==
    cur.fn = "run_at" =>
        /\ \A i \in 1 .. Len(cur.invoked) : cur.invoked[i].loc = cur.at
        /\ cur.status = "returned" => get_loc(Self) = get_loc(cur.pre)

\* the operation ran under run_at, moved the cursor with set_loc to a value
\* that is neither `at` nor the value before the call, and run_at returned
C4_Witness ==
    /\ cur.fn = "run_at"
    /\ cur.status = "returned"
    /\ cur.invoked # <<>>
    /\ cur.invoked[1].loc = cur.at
    /\ cur.left # cur.at
    /\ cur.left # get_loc(cur.pre)
    /\ loc = get_loc(cur.pre)

(***************************************************************************)
(* The not-found diagnostic.                                               *)
(***************************************************************************)
\* the texts of the names a sink shows as suggestions (painted Paint::rgb)
Suggested(w) ==
    LET painted == SelectSeq(w, LAMBDA c : c.fg[1] = "RGB")
    IN  [i \in 1 .. Len(painted) |-> painted[i].text]

RECURSIVE Joined(_)
\* texts separated by ", "
Joined(texts) ==
    IF texts = <<>> THEN ""
    ELSE IF Len(texts) = 1 THEN texts[1]
    ELSE Head(texts) \o ", " \o Joined(Tail(texts))

NotFoundLines(command) ==
    "Error: Execution failed\nCommand " \o Str(command) \o " is not found.\n"

\* the driver's call was a run or help of a name that was not registered
NotFoundCall ==
    /\ cur.fn \in {"run", "help"}
    /\ cur.status \in {"returned", "panicked"}
    /\ ~Registered(cur.pre.commands, cur.command)

\* C5: when run or help is called with an unregistered name and the set S of
\* registered names at edit distance 1 or 2 is not empty, the diagnostic sink
\* receives `Error: Execution failed`, `Command <name> is not found.` and one
\* line `Similar command: <s1>, <s2>, ....` listing every member of S once
\* and no other name; the primary sink receives nothing.
C5_SuggestionLine ==
    (NotFoundCall /\ SimilarSet(cur.pre.commands, cur.command) # {}) =>
        LET S == SimilarSet(cur.pre.commands, cur.command)
            listed == Suggested(stderr)
        IN  /\ utf8_string(stderr) =
                  utf8_string(cur.pre.stderr) \o NotFoundLines(cur.command)
                      \o "Similar command: " \o Joined(listed) \o ".\n"
            /\ {listed[i] : i \in 1 .. Len(listed)} = {Str(k) : k \in S}
            /\ Len(listed) = Cardinality(S)
            /\ stdout = cur.pre.stdout

\* C6: when run or help is called with an unregistered name and no registered
\* name is within edit distance 2, the diagnostic sink receives the two
\* not-found lines and nothing else: no `Similar command:` line.
C6_NoSuggestionLine ==
    (NotFoundCall /\ SimilarSet(cur.pre.commands, cur.command) = {}) =>
        /\ utf8_string(stderr) =
              utf8_string(cur.pre.stderr) \o NotFoundLines(cur.command)
        /\ Suggested(stderr) = <<>>
        /\ cur.status = "returned"

\* run("quit", ..) on Core::new(): no registered name is within distance 2
C6_Witness ==
    /\ cur.fn = "run"
    /\ cur.status = "returned"
    /\ cur.command = n_quit
    /\ Len(cur.pre.commands) = Len(LoadedCommands)
    /\ utf8_string(stderr) = "Error: Execution failed\nCommand quit is not found.\n"

\* C7: a duplicate registration and a command-not-found are not fatal: for
\* every session built through the public interface, add_command of an
\* existing name and run, run_at or help of an unregistered name return
\* normally.
C7_ReportsAreNotFatal ==
    /\ (cur.fn = "add_command" /\ Registered(cur.pre.commands, cur.command))
          => cur.status = "returned"
    /\ (cur.fn \in {"run", "run_at", "help"}
            /\ ~Registered(cur.pre.commands, cur.command))
          => cur.status # "panicked"

\* C8: registration collides on exact name equality only: add_command of a
\* name not yet present inserts the binding and writes nothing to either
\* sink, whatever operations and near names are registered; the ten names of
\* load_commands are all inserted, and whenever the driver holds a Core built
\* by Core::new each of them resolves to its operation.
C8_CollisionIsExactMatch ==
    /\ (cur.fn = "add_command" /\ ~Registered(cur.pre.commands, cur.command)) =>
          /\ commands = Append(cur.pre.commands,
                               [key |-> cur.command, value |-> cur.op])
          /\ run_exact(Self, cur.command) = <<cur.op>>
          /\ stderr = cur.pre.stderr
          /\ stdout = cur.pre.stdout
    /\ (Idle /\ Len(commands) >= Len(LoadedCommands)) =>
          \A i \in 1 .. Len(LoadedCommands) :
              /\ commands[i] = [key |-> LoadedCommands[i][1],
                                value |-> LoadedCommands[i][2]]
              /\ run_exact(Self, LoadedCommands[i][1]) = <<LoadedCommands[i][2]>>

\* seek is bound to SEEKFUNCTION, and add_command("seeker", SEEKFUNCTION), a
\* name two edits from seek for the same operation, succeeded silently
C8_Witness ==
    /\ cur.fn = "add_command"
    /\ cur.command = n_seeker
    /\ cur.op = "SEEKFUNCTION"
    /\ Bound(cur.pre.commands, n_seek) = {"SEEKFUNCTION"}
    /\ ~Registered(cur.pre.commands, n_seeker)
    /\ Bound(commands, n_seeker) = {"SEEKFUNCTION"}
    /\ stderr = <<>>
    /\ stdout = <<>>

\* C9: help, run and run_at resolve a name through the same lookup: whenever
\* the driver holds the Core, help finds an exact match for a name iff run
\* does (every registry state occurs there), and a call of one
\* entry point that found none left in the sinks exactly what the other entry
\* point writes from the same Core: the same diagnostic, nothing on stdout.
C9_SameLookupSameReport ==
    /\ Idle =>
          \A name \in CmdNames :
              (help_exact(Self, name) = <<>>) <=> (run_exact(Self, name) = <<>>)
    /\ (cur.fn \in {"run", "run_at"} /\ cur.status \in {"returned", "panicked"}
            /\ cur.invoked = <<>>) =>
          LET h == help_dispatch(cur.pre, cur.command)
          IN  /\ stderr = h.core.stderr
              /\ stdout = h.core.stdout
              /\ stdout = cur.pre.stdout
              /\ (cur.status = "panicked") = h.panic
    /\ (cur.fn = "help" /\ cur.status \in {"returned", "panicked"}
            /\ cur.invoked = <<>>) =>
          LET r == run_dispatch(cur.pre, cur.command, <<>>)
          IN  /\ stderr = r.core.stderr
              /\ stdout = r.core.stdout
              /\ stdout = cur.pre.stdout
              /\ (cur.status = "panicked") = r.panic

\* help("seeker") on Core::new() reported what run reports (test_help)
C9_Witness ==
    /\ cur.fn = "help"
    /\ cur.status = "returned"
    /\ cur.command = n_seeker
    /\ cur.pre = Core_new
    /\ utf8_string(stderr) =
          "Error: Execution failed\nCommand seeker is not found.\nSimilar command: seek.\n"
    /\ stdout = <<>>

\* C10: when the name given to run (or help) is registered, the exact set has
\* exactly one entry, that entry's run (or help) function is invoked exactly
\* once with the given args, and the core reports nothing for the call.
C10_RegisteredNameIsInvokedOnce ==
    (cur.fn \in {"run", "help"} /\ Registered(cur.pre.commands, cur.command)) =>
        /\ Len(run_exact(cur.pre, cur.command)) = 1
        /\ Len(help_exact(cur.pre, cur.command)) = 1
        /\ cur.invoked =
              << [op |-> CHOOSE f \in Bound(cur.pre.commands, cur.command) : TRUE,
                  entry |-> cur.fn, args |-> cur.args,
                  loc |-> get_loc(cur.pre)] >>
        /\ cur.nested = 0 => stderr = cur.pre.stderr

\* run("seek", ["0x10"]) on a registry that binds seek invoked SEEKFUNCTION's
\* run with ["0x10"] and returned
C10_Witness ==
    /\ cur.fn = "run"
    /\ cur.status = "returned"
    /\ cur.command = n_seek
    /\ cur.args = <<"0x10">>
    /\ cur.invoked = << [op |-> "SEEKFUNCTION", entry |-> "run",
                         args |-> <<"0x10">>, loc |-> get_loc(cur.pre)] >>
    /\ stderr = <<>>

(***************************************************************************)
(* The rank of the suggestions.                                            *)
(***************************************************************************)
\* the registration order of a registered name
Pos(tree, k) == CHOOSE i \in 1 .. Len(tree) : tree[i].key = k

\* a ranks before b as a suggestion for name: nearer, or as near and
\* registered earlier
Before(tree, name, a, b) ==
    \/ Dist(a, name) < Dist(b, name)
    \/ Dist(a, name) = Dist(b, name) /\ Pos(tree, a) < Pos(tree, b)

\* the suggestions for name in rank order: the i-th has i - 1 before it
Ranked(tree, name) ==
    LET S == SimilarSet(tree, name)
    IN  [i \in 1 .. Cardinality(S) |->
            Str(CHOOSE k \in S :
                    Cardinality({j \in S : Before(tree, name, j, k)}) = i - 1)]

\* the driver's call was a dispatch of an unregistered name, and it ended
UnregisteredCall ==
    /\ cur.fn \in {"run", "run_at", "help"}
    /\ cur.status \in {"returned", "panicked"}
    /\ ~Registered(cur.pre.commands, cur.command)

\* C11: the suggestions printed for an unregistered name are in order of
\* increasing edit distance from the name, ties broken by registration order,
\* and the listing is a function of the registry and the query alone: a call
\* that returned printed exactly the ranked list, whatever the cursor, the
\* mode and the colours of the session, and no call printed anything else.
C11_SuggestionsInRankOrder ==
    UnregisteredCall =>
        LET ranked == Ranked(cur.pre.commands, cur.command)
            listed == Suggested(stderr)
        IN  /\ listed \in {<<>>, ranked}
            /\ cur.status = "returned" =>
                  /\ listed = ranked
                  /\ utf8_string(stderr) =
                        NotFoundLines(cur.command)
                            \o (IF ranked = <<>> THEN ""
                                ELSE "Similar command: " \o Joined(ranked) \o ".\n")

\* run("ma", ..) on the registry of Core::new: map and m are one edit away
\* and listed in registration order; maps, registered before m, is two edits
\* away and listed after it
C11_Witness ==
    /\ cur.fn = "run"
    /\ cur.status = "returned"
    /\ cur.command = n_ma
    /\ Len(cur.pre.commands) = Len(LoadedCommands)
    /\ Suggested(stderr) = <<"map", "m", "maps", "px", "s", "um">>

(***************************************************************************)
(* Nested run_at.                                                          *)
(***************************************************************************)
\* the step starts an operation under a run_at: both frames are pushed
EntersUnderRunAt ==
    /\ Len(stack') = Len(stack) + 2
    /\ stack'[Len(stack') - 1].fn = "run_at"
    /\ stack'[Len(stack')].fn = "op"

\* the step is the return of the innermost run_at
LeavesRunAt ==
    /\ ~panicked'
    /\ stack # <<>>
    /\ Top.fn = "run_at"
    /\ stack' = Pop

\* C12: nested run_at calls unwind in LIFO order, at every depth: an operation
\* started under run_at(.., at) sees the cursor at on entry, whether the
\* caller is the driver or another operation; the run_at that returns is the
\* innermost one, and its return leaves the cursor with the value its caller
\* had just before that call, so the outer operation gets its own value back
\* and the outermost return leaves the value from before the outer call.
C12_NestedOverridesUnwindLIFO ==
    [][ /\ EntersUnderRunAt =>
              /\ loc' = stack'[Len(stack') - 1].at
              /\ stack'[Len(stack') - 1].pre_loc = loc
              /\ SubSeq(stack', 1, Len(stack)) = stack
        /\ LeavesRunAt =>
              /\ loc' = Top.pre_loc
              /\ Pop = <<>> => loc' = get_loc(cur.pre)
      ]_vars

\* the driver's run_at("seek", .., at) on a cursor other than at returned, the
\* operation had called run_at of a registered name, and at the end the
\* operation still had the cursor at: it got it back after the inner call
C12_Witness ==
    /\ cur.fn = "run_at"
    /\ cur.status = "returned"
    /\ cur.command = n_seek
    /\ cur.nested = 1
    /\ cur.invoked # <<>>
    /\ stderr = <<>>
    /\ cur.at # get_loc(cur.pre)
    /\ cur.left = cur.at
    /\ loc = get_loc(cur.pre)

(***************************************************************************)
(* The frame of the reported failures.                                     *)
(***************************************************************************)
\* the driver's call was an add_command of a registered name
RejectedAdd ==
    /\ cur.fn = "add_command"
    /\ Registered(cur.pre.commands, cur.command)

\* everything of the Core but the diagnostic sink is as before the call
OnlyStderrChanged ==
    /\ loc = cur.pre.loc
    /\ mode = cur.pre.mode
    /\ color_palette = cur.pre.color_palette
    /\ stdout = cur.pre.stdout
    /\ commands = cur.pre.commands

\* C13: a rejected add_command and a run or help of an unregistered name
\* leave the cursor, the mode, the palette, the primary sink and the registry
\* exactly as they were before the call (only the diagnostic sink differs),
\* and no step of any call removes or changes a registry entry: the registry
\* before a step is a prefix of the registry after it.
C13_FailuresTouchOnlyStderr ==
    /\ [](RejectedAdd => OnlyStderrChanged)
    /\ [](NotFoundCall => OnlyStderrChanged)
    /\ [][ /\ Len(commands') >= Len(commands)
           /\ SubSeq(commands', 1, Len(commands)) = commands ]_vars

\* help("ma") of a session at 0x500 in virtual mode reported the failure with
\* suggestions and returned: the diagnostic sink is all that differs
C13_Witness ==
    /\ cur.fn = "help"
    /\ cur.status = "returned"
    /\ cur.command = n_ma
    /\ ~Registered(cur.pre.commands, n_ma)
    /\ stderr # cur.pre.stderr
    /\ Suggested(stderr) # <<>>
    /\ loc = AddrStep
    /\ mode = "Vir"
    /\ OnlyStderrChanged

(***************************************************************************)
(* The duplicate-registration diagnostic.                                  *)
(***************************************************************************)
DuplicateLines(name) ==
    "Error: Cannot add this command.\nCommand " \o Str(name)
        \o " already existed.\n"

\* C14: an add_command of a registered name writes exactly the two lines
\* `Error: Cannot add this command.` and `Command <name> already existed.` to
\* the diagnostic sink, once, and nothing to the primary sink; an add_command
\* of a new name writes nothing; and the call left the registry as it was
\* (was rejected) if and only if it wrote the diagnostic.
C14_DuplicateDiagnostic ==
    cur.fn = "add_command" =>
        /\ stdout = cur.pre.stdout
        /\ IF Registered(cur.pre.commands, cur.command)
           THEN utf8_string(stderr) =
                    utf8_string(cur.pre.stderr) \o DuplicateLines(cur.command)
           ELSE stderr = cur.pre.stderr
        /\ (commands = cur.pre.commands) <=> (stderr # cur.pre.stderr)
        /\ (commands = cur.pre.commands) <=>
              (utf8_string(stderr) =
                  utf8_string(cur.pre.stderr) \o DuplicateLines(cur.command))

\* add_command("seek", ..) on the registry of Core::new, which binds seek
C14_Witness ==
    /\ cur.fn = "add_command"
    /\ cur.command = n_seek
    /\ Len(cur.pre.commands) = Len(LoadedCommands)
    /\ cur.pre.stderr = <<>>
    /\ commands = cur.pre.commands
    /\ utf8_string(stderr) =
          "Error: Cannot add this command.\nCommand seek already existed.\n"
    /\ stdout = <<>>

====
